---- MODULE Spec2Model ----
(***************************************************************************)
(* Model of src/config/src/mtk64_dongle_led.c: one status LED driven by    *)
(* three execution contexts.                                               *)
(*                                                                         *)
(*   timer     adv_timer_handler, a k_timer expiry function (interrupt     *)
(*             context): one atomic step that may fall between any two     *)
(*             steps of the threads.                                       *)
(*   listener  led_conn_listener_cb / led_layer_listener_cb, run by the    *)
(*             event manager in the thread that raised the event.  Nothing *)
(*             in the code ties them to the init function: a call may      *)
(*             start before init has returned.                             *)
(*   worker    layer_blink_thread, created with                            *)
(*             K_LOWEST_APPLICATION_THREAD_PRIO (line 106-107): it runs    *)
(*             only while no listener call is in progress, and a listener  *)
(*             call may start between any two of its steps.  As a static   *)
(*             thread it is started once the APPLICATION level init        *)
(*             functions have returned.                                    *)
(*   init      mtk64_dongle_led_init, a SYS_INIT function of level         *)
(*             APPLICATION (line 166), run by the main thread: it sleeps   *)
(*             in its boot blink (lines 156, 158), and a listener call may *)
(*             start between any two of its steps.                         *)
(*                                                                         *)
(* Every step is one access to shared state (one load, one store, one      *)
(* kernel call).                                                           *)
(***************************************************************************)
EXTENDS Naturals, FiniteSets, Sequences, TLC

\* Highest keymap layer number that zmk_keymap_highest_layer_active() reports.
MaxLayer == 2

\* Number of boot confirmation blinks (line 154).
BootBlinks == 3

VARIABLES
    dev,                \* the GPIO port: "ok", "cfg_fail" (ready, pin configuration fails), "not_ready"
    profile,            \* connectivity state read by compute_mode: [connected, open]
    current_mode,       \* line 24
    layer_blink_active, \* line 25
    layer_blink_count,  \* line 26
    led_state,          \* line 27
    pin,                \* level last written by gpio_pin_set_dt (line 33)
    adv_timer,          \* TRUE while the periodic k_timer is running
    layer_blink_sem,    \* count of the semaphore, line 43
    pc,                 \* position of each context
    count,              \* layer_blink_thread's local count (line 86)
    i,                  \* layer_blink_thread's loop counter (line 94)
    boot,               \* mtk64_dongle_led_init's loop counter (line 154)
    init_ret,           \* return value of mtk64_dongle_led_init: "none", "0", "ENODEV", "err"
    mode_ret,           \* what compute_mode() returns to mtk64_dongle_led_init (line 161)
    \* history variables (written, never read by the program's steps)
    nreq,               \* requests accepted since the worker last returned from k_sem_take (2 = two or more)
    woke,               \* value of nreq when the worker last returned from k_sem_take
    pended,             \* the worker's most recent k_sem_take had to wait
    lastReq,            \* layer stored by the most recent accepted request
    cycles,             \* off/on cycles completed in the worker's current sequence
    conn_seen,          \* a connectivity event has been delivered
    lastEv,             \* the most recent event: "none", "conn", "ignored", "accepted", "acceptedB"
    fresh,              \* the timer was started and has not expired or been stopped since
    unserved            \* a request was accepted since the worker last read layer_blink_count

prog == <<dev, profile, current_mode, layer_blink_active, layer_blink_count,
          led_state, pin, adv_timer, layer_blink_sem, pc, count, i, boot, init_ret, mode_ret>>
hist == <<nreq, woke, pended, lastReq, cycles, conn_seen, lastEv, fresh, unserved>>
vars == <<prog, hist>>

LED_MODE_OFF == "OFF"
LED_MODE_ADVERTISING == "ADVERTISING"
LED_MODE_CONNECTED == "CONNECTED"
led_mode == {LED_MODE_OFF, LED_MODE_ADVERTISING, LED_MODE_CONNECTED}

Ctx == {"init", "listener", "worker"}

Profiles == [connected : BOOLEAN, open : BOOLEAN]

\* A layer event as led_layer_listener_cb sees it: whether it decodes
\* (ev != NULL), ev->state, and what zmk_keymap_highest_layer_active() returns.
LayerEvents == {[dec |-> FALSE, state |-> FALSE, layer |-> 0]}
               \cup [dec : {TRUE}, state : BOOLEAN, layer : 0..MaxLayer]

device_is_ready == dev # "not_ready"

\* compute_mode, lines 45-53
compute_mode(p) ==
    IF p.connected THEN LED_MODE_CONNECTED
    ELSE IF p.open THEN LED_MODE_ADVERTISING
    ELSE LED_MODE_OFF

InitDone == pc["init"] = "done"

\* Where apply_mode returns to in each context.
Ret(c) == IF c = "init" THEN "i_ret" ELSE IF c = "listener" THEN "idle" ELSE "take"

Goto(c, p) == pc' = [pc EXCEPT ![c] = p]

----------------------------------------------------------------------------
\* led_set, lines 29-35, called by context c at position p: the readiness test
\* and the pin write (line 30-33), then the store to led_state (line 34).

LedSetPin(c, p, on, after) ==
    /\ pc[c] = p
    /\ IF device_is_ready
       THEN pin' = on /\ Goto(c, p \o "_st")
       ELSE pin' = pin /\ Goto(c, after)
    /\ UNCHANGED <<dev, profile, current_mode, layer_blink_active, layer_blink_count,
                   led_state, adv_timer, layer_blink_sem, count, i, boot, init_ret, mode_ret>>
    /\ UNCHANGED <<nreq, woke, pended, lastReq, cycles, conn_seen, lastEv, fresh, unserved>>

LedSetStore(c, p, on, after) ==
    /\ pc[c] = p \o "_st"
    /\ led_state' = on
    /\ Goto(c, after)
    /\ UNCHANGED <<dev, profile, current_mode, layer_blink_active, layer_blink_count,
                   pin, adv_timer, layer_blink_sem, count, i, boot, init_ret, mode_ret>>
    /\ UNCHANGED hist

\* adv_timer_handler, lines 37-40: runs in interrupt context, so the whole
\* led_set(!led_state) is one step.
adv_timer_handler ==
    /\ adv_timer
    /\ IF device_is_ready
       THEN pin' = ~led_state /\ led_state' = ~led_state
       ELSE UNCHANGED <<pin, led_state>>
    /\ UNCHANGED <<dev, profile, current_mode, layer_blink_active, layer_blink_count,
                   adv_timer, layer_blink_sem, pc, count, i, boot, init_ret, mode_ret>>
    /\ fresh' = FALSE
    /\ UNCHANGED <<nreq, woke, pended, lastReq, cycles, conn_seen, lastEv, unserved>>

----------------------------------------------------------------------------
\* apply_mode, lines 55-76, run by context c.

\* A step of a thread that only moves its position.
Jump(c, p) ==
    /\ Goto(c, p)
    /\ UNCHANGED <<dev, profile, current_mode, layer_blink_active, layer_blink_count,
                   led_state, pin, adv_timer, layer_blink_sem, count, i, boot, init_ret, mode_ret>>
    /\ UNCHANGED hist

\* k_timer_start / k_timer_stop by context c, then on to position p.
TimerSet(c, running, p) ==
    /\ adv_timer' = running
    /\ Goto(c, p)
    /\ UNCHANGED <<dev, profile, current_mode, layer_blink_active, layer_blink_count,
                   led_state, pin, layer_blink_sem, count, i, boot, init_ret, mode_ret>>
    /\ fresh' = running
    /\ UNCHANGED <<nreq, woke, pended, lastReq, cycles, conn_seen, lastEv, unserved>>

\* line 56: the test of atomic_get(&layer_blink_active)
OverrideSeen_never(active) == FALSE

OverrideSeen(active) == active = 1

\* line 57: the test that decides whether the overridden branch stops the timer
OvrStops_always(mode) == TRUE

OvrStops(mode) == mode # LED_MODE_ADVERTISING

\* lines 63-75: the switch, as the position of the chosen case
SwitchCase_conn_off(mode) ==
    IF mode = LED_MODE_ADVERTISING THEN "am_start" ELSE "am_stop_off"

SwitchCase(mode) ==
    IF mode = LED_MODE_ADVERTISING THEN "am_start"
    ELSE IF mode = LED_MODE_CONNECTED THEN "am_stop_on"
    ELSE "am_stop_off"

AmActive(c) ==
    /\ pc[c] = "am_active"
    /\ Jump(c, IF OverrideSeen(layer_blink_active) THEN "am_ovr_mode" ELSE "am_switch")

AmOvrMode(c) ==
    /\ pc[c] = "am_ovr_mode"
    /\ Jump(c, IF OvrStops(current_mode) THEN "am_ovr_stop" ELSE Ret(c))

AmOvrStop(c) ==
    /\ pc[c] = "am_ovr_stop"
    /\ TimerSet(c, FALSE, Ret(c))

AmSwitch(c) ==
    /\ pc[c] = "am_switch"
    /\ Jump(c, SwitchCase(current_mode))

AmStart(c) ==
    /\ pc[c] = "am_start"
    /\ TimerSet(c, TRUE, Ret(c))

AmStopOn(c) ==
    /\ pc[c] = "am_stop_on"
    /\ TimerSet(c, FALSE, "am_on")

AmStopOff(c) ==
    /\ pc[c] = "am_stop_off"
    /\ TimerSet(c, FALSE, "am_off")

apply_mode(c) ==
    \/ AmActive(c)
    \/ AmOvrMode(c)
    \/ AmOvrStop(c)
    \/ AmSwitch(c)
    \/ AmStart(c)
    \/ AmStopOn(c)
    \/ AmStopOff(c)
    \/ LedSetPin(c, "am_on", TRUE, Ret(c))
    \/ LedSetStore(c, "am_on", TRUE, Ret(c))
    \/ LedSetPin(c, "am_off", FALSE, Ret(c))
    \/ LedSetStore(c, "am_off", FALSE, Ret(c))

----------------------------------------------------------------------------
\* mtk64_dongle_led_init, lines 143-164.

\* lines 144-146
InitReady ==
    /\ pc["init"] = "i_ready"
    /\ IF device_is_ready
       THEN Goto("init", "i_cfg") /\ init_ret' = init_ret
       ELSE Goto("init", "done") /\ init_ret' = "ENODEV"
    /\ UNCHANGED <<dev, profile, current_mode, layer_blink_active, layer_blink_count,
                   led_state, pin, adv_timer, layer_blink_sem, count, i, boot, mode_ret>>
    /\ UNCHANGED hist

\* lines 148-151: gpio_pin_configure_dt(&led, GPIO_OUTPUT_INACTIVE)
InitConfigure ==
    /\ pc["init"] = "i_cfg"
    /\ IF dev = "cfg_fail"
       THEN Goto("init", "done") /\ init_ret' = "err" /\ pin' = pin
       ELSE Goto("init", "i_loop") /\ init_ret' = init_ret /\ pin' = FALSE
    /\ UNCHANGED <<dev, profile, current_mode, layer_blink_active, layer_blink_count,
                   led_state, adv_timer, layer_blink_sem, count, i, boot, mode_ret>>
    /\ UNCHANGED hist

\* line 154 with the loop test i + 1 < 3
InitLoop_short ==
    /\ pc["init"] = "i_loop"
    /\ Jump("init", IF boot + 1 < BootBlinks THEN "i_on" ELSE "i_mode")

\* line 154: the loop test
InitLoop ==
    /\ pc["init"] = "i_loop"
    /\ Jump("init", IF boot < BootBlinks THEN "i_on" ELSE "i_mode")

\* line 158 and the i++ of line 154
InitInc ==
    /\ pc["init"] = "i_inc"
    /\ boot' = boot + 1
    /\ Goto("init", "i_loop")
    /\ UNCHANGED <<dev, profile, current_mode, layer_blink_active, layer_blink_count,
                   led_state, pin, adv_timer, layer_blink_sem, count, i, init_ret, mode_ret>>
    /\ UNCHANGED hist

\* line 161, compute_mode() called by init, lines 46-48: the call of
\* zmk_ble_active_profile_is_connected().  A listener call may fall between
\* this read, the next one and the store of the result.
InitModeConnected ==
    /\ pc["init"] = "i_mode"
    /\ IF profile.connected
       THEN /\ mode_ret' = compute_mode([connected |-> TRUE, open |-> FALSE])
            /\ Goto("init", "i_store")
       ELSE /\ mode_ret' = mode_ret
            /\ Goto("init", "i_open")
    /\ UNCHANGED <<dev, profile, current_mode, layer_blink_active, layer_blink_count,
                   led_state, pin, adv_timer, layer_blink_sem, count, i, boot, init_ret>>
    /\ UNCHANGED hist

\* line 161, compute_mode() called by init, lines 49-52: the call of
\* zmk_ble_active_profile_is_open() and the return.
InitModeOpen ==
    /\ pc["init"] = "i_open"
    /\ mode_ret' = compute_mode([connected |-> FALSE, open |-> profile.open])
    /\ Goto("init", "i_store")
    /\ UNCHANGED <<dev, profile, current_mode, layer_blink_active, layer_blink_count,
                   led_state, pin, adv_timer, layer_blink_sem, count, i, boot, init_ret>>
    /\ UNCHANGED hist

\* line 161: the store of the returned mode in current_mode
InitMode ==
    /\ pc["init"] = "i_store"
    /\ current_mode' = mode_ret
    /\ Goto("init", "am_active")
    /\ UNCHANGED <<dev, profile, layer_blink_active, layer_blink_count,
                   led_state, pin, adv_timer, layer_blink_sem, count, i, boot, init_ret, mode_ret>>
    /\ UNCHANGED hist

\* line 163
InitReturn ==
    /\ pc["init"] = "i_ret"
    /\ init_ret' = "0"
    /\ Goto("init", "done")
    /\ UNCHANGED <<dev, profile, current_mode, layer_blink_active, layer_blink_count,
                   led_state, pin, adv_timer, layer_blink_sem, count, i, boot, mode_ret>>
    /\ UNCHANGED hist

mtk64_dongle_led_init ==
    /\ ~InitDone
    /\ pc["listener"] = "idle"
    /\ \/ InitReady
       \/ InitConfigure
       \/ InitLoop
       \/ LedSetPin("init", "i_on", TRUE, "i_off")
       \/ LedSetStore("init", "i_on", TRUE, "i_off")
       \/ LedSetPin("init", "i_off", FALSE, "i_inc")
       \/ LedSetStore("init", "i_off", FALSE, "i_inc")
       \/ InitInc
       \/ InitModeConnected
       \/ InitModeOpen
       \/ InitMode
       \/ apply_mode("init")
       \/ InitReturn

----------------------------------------------------------------------------
\* layer_blink_thread, lines 78-104.  The worker has the lowest application
\* priority: it steps only when no listener call is in progress.

WorkerRuns == InitDone /\ pc["listener"] = "idle"

\* line 84: the call of k_sem_take(&layer_blink_sem, K_FOREVER).  With the
\* count above 0 it decrements the count and returns; otherwise the worker is
\* put on the semaphore's wait queue.
WorkerTake ==
    /\ pc["worker"] = "take"
    /\ IF layer_blink_sem > 0
       THEN /\ layer_blink_sem' = layer_blink_sem - 1
            /\ woke' = nreq
            /\ nreq' = 0
            /\ pended' = FALSE
            /\ Goto("worker", "read")
       ELSE /\ Goto("worker", "blocked")
            /\ UNCHANGED <<layer_blink_sem, woke, nreq, pended>>
    /\ UNCHANGED <<dev, profile, current_mode, layer_blink_active, layer_blink_count,
                   led_state, pin, adv_timer, count, i, boot, init_ret, mode_ret>>
    /\ UNCHANGED <<lastReq, cycles, conn_seen, lastEv, fresh, unserved>>

\* line 84: k_sem_take returns in the worker that a k_sem_give took off the
\* wait queue.
WorkerWake ==
    /\ pc["worker"] = "woken"
    /\ woke' = nreq
    /\ nreq' = 0
    /\ pended' = TRUE
    /\ Goto("worker", "read")
    /\ UNCHANGED <<dev, profile, current_mode, layer_blink_active, layer_blink_count,
                   led_state, pin, adv_timer, layer_blink_sem, count, i, boot, init_ret, mode_ret>>
    /\ UNCHANGED <<lastReq, cycles, conn_seen, lastEv, fresh, unserved>>

\* lines 86-89
WorkerRead ==
    /\ pc["worker"] = "read"
    /\ count' = layer_blink_count
    /\ i' = 0
    /\ cycles' = 0
    /\ Goto("worker", IF layer_blink_count = 0 THEN "take" ELSE "set_active")
    /\ UNCHANGED <<dev, profile, current_mode, layer_blink_active, layer_blink_count,
                   led_state, pin, adv_timer, layer_blink_sem, boot, init_ret, mode_ret>>
    /\ unserved' = FALSE
    /\ UNCHANGED <<nreq, woke, pended, lastReq, conn_seen, lastEv, fresh>>

\* line 91 and line 101, with the value of line 91 stored at both
WorkerSetActive_stuck(p, v, next) ==
    /\ pc["worker"] = p
    /\ layer_blink_active' = 1
    /\ Goto("worker", next)
    /\ UNCHANGED <<dev, profile, current_mode, layer_blink_count,
                   led_state, pin, adv_timer, layer_blink_sem, count, i, boot, init_ret, mode_ret>>
    /\ UNCHANGED hist

\* line 91 and line 101: atomic_set(&layer_blink_active, v)
WorkerSetActive(p, v, next) ==
    /\ pc["worker"] = p
    /\ layer_blink_active' = v
    /\ Goto("worker", next)
    /\ UNCHANGED <<dev, profile, current_mode, layer_blink_count,
                   led_state, pin, adv_timer, layer_blink_sem, count, i, boot, init_ret, mode_ret>>
    /\ UNCHANGED hist

\* line 92
WorkerStopTimer ==
    /\ pc["worker"] = "stop"
    /\ TimerSet("worker", FALSE, "loop")

\* line 94: the loop test i < count
LoopCond_reread(n, local, shared) == n < shared

LoopCond_short(n, local, shared) == n + 1 < local

LoopCond(n, local, shared) == n < local

WorkerLoop ==
    /\ pc["worker"] = "loop"
    /\ Jump("worker", IF LoopCond(i, count, layer_blink_count) THEN "w_off" ELSE "clear")

\* the loop of line 94 without its i++
WorkerInc_stuck ==
    /\ pc["worker"] = "w_inc"
    /\ Goto("worker", "loop")
    /\ UNCHANGED <<dev, profile, current_mode, layer_blink_active, layer_blink_count,
                   led_state, pin, adv_timer, layer_blink_sem, count, i, boot, init_ret, mode_ret>>
    /\ UNCHANGED hist

\* line 98 and the i++ of line 94
WorkerInc ==
    /\ pc["worker"] = "w_inc"
    /\ i' = i + 1
    /\ cycles' = cycles + 1
    /\ Goto("worker", "loop")
    /\ UNCHANGED <<dev, profile, current_mode, layer_blink_active, layer_blink_count,
                   led_state, pin, adv_timer, layer_blink_sem, count, boot, init_ret, mode_ret>>
    /\ UNCHANGED <<nreq, woke, pended, lastReq, conn_seen, lastEv, fresh, unserved>>

InApplyMode(c) ==
    pc[c] \in {"am_active", "am_ovr_mode", "am_ovr_stop", "am_switch", "am_start",
               "am_stop_on", "am_stop_off", "am_on", "am_on_st", "am_off", "am_off_st"}

layer_blink_thread ==
    /\ WorkerRuns
    /\ \/ WorkerTake
       \/ WorkerWake
       \/ WorkerRead
       \/ WorkerSetActive("set_active", 1, "stop")
       \/ WorkerStopTimer
       \/ WorkerLoop
       \/ LedSetPin("worker", "w_off", FALSE, "w_on")
       \/ LedSetStore("worker", "w_off", FALSE, "w_on")
       \/ LedSetPin("worker", "w_on", TRUE, "w_inc")
       \/ LedSetStore("worker", "w_on", TRUE, "w_inc")
       \/ WorkerInc
       \/ WorkerSetActive("clear", 0, "am_active")
       \/ apply_mode("worker")

----------------------------------------------------------------------------
\* The listeners, lines 109-141.  One listener call runs at a time.

\* The connectivity subsystem changes the profile state and raises
\* zmk_ble_active_profile_changed: led_conn_listener_cb is entered.
ConnEvent(p) ==
    /\ pc["listener"] = "idle"
    /\ profile' = p
    /\ conn_seen' = TRUE
    /\ lastEv' = "conn"
    /\ Goto("listener", "c_mode")
    /\ UNCHANGED <<dev, current_mode, layer_blink_active, layer_blink_count,
                   led_state, pin, adv_timer, layer_blink_sem, count, i, boot, init_ret, mode_ret>>
    /\ UNCHANGED <<nreq, woke, pended, lastReq, cycles, fresh, unserved>>

\* line 111: compute_mode() and the store of its result.  The connectivity
\* state changes only with the event that enters the listener, and no other
\* thread runs during the call, so the two reads and the store are one step.
ConnMode ==
    /\ pc["listener"] = "c_mode"
    /\ current_mode' = compute_mode(profile)
    /\ Goto("listener", "am_active")
    /\ UNCHANGED <<dev, profile, layer_blink_active, layer_blink_count,
                   led_state, pin, adv_timer, layer_blink_sem, count, i, boot, init_ret, mode_ret>>
    /\ UNCHANGED hist

led_conn_listener_cb ==
    /\ pc["listener"] # "idle"
    /\ \/ ConnMode
       \/ apply_mode("listener")

\* Capacity of layer_blink_sem: K_SEM_DEFINE(layer_blink_sem, 0, 1), line 43.
SemLimit == 1

\* k_sem_give, line 136, when no thread waits on the semaphore: the count
\* goes up unless it is at its limit.
SemGive_lost(s) == IF s < SemLimit THEN s ELSE s

SemGive(s) == IF s < SemLimit THEN s + 1 ELSE s

\* lines 122-133: the tests an event must pass to reach line 135
LayerAccepted_any_mode(ev, mode) ==
    ev.dec /\ ev.state /\ ev.layer # 0

\* lines 122-133 without the layer == 0 return of lines 131-133
LayerAccepted_layer0(ev, mode) ==
    /\ ev.dec
    /\ ev.state
    /\ mode = LED_MODE_CONNECTED

LayerAccepted(ev, mode) ==
    /\ ev.dec
    /\ ev.state
    /\ mode = LED_MODE_CONNECTED
    /\ ev.layer # 0

\* The state in which scenario B of the specification starts: connected,
\* the worker blocked with no wake pending, the indicator on.
ScenarioBStart ==
    /\ current_mode = LED_MODE_CONNECTED
    /\ pc["worker"] = "blocked"
    /\ layer_blink_sem = 0
    /\ pin

\* The worker is on the wait queue of layer_blink_sem.
SemWaiter == pc["worker"] = "blocked"

\* led_layer_listener_cb, lines 119-138.  The call touches only
\* layer_blink_count and the semaphore, which neither the timer nor (during
\* the call) the worker touches, so it is one step.  k_sem_give hands the
\* semaphore to a waiting worker, which becomes ready and leaves the count
\* as it is; with no waiter it raises the count.
led_layer_listener_cb(ev) ==
    /\ pc["listener"] = "idle"
    /\ IF LayerAccepted(ev, current_mode)
       THEN /\ layer_blink_count' = ev.layer
            /\ IF SemWaiter
               THEN Goto("worker", "woken") /\ layer_blink_sem' = layer_blink_sem
               ELSE pc' = pc /\ layer_blink_sem' = SemGive(layer_blink_sem)
            /\ lastReq' = ev.layer
            /\ nreq' = IF nreq < 2 THEN nreq + 1 ELSE 2
            /\ lastEv' = IF ScenarioBStart THEN "acceptedB" ELSE "accepted"
            /\ unserved' = TRUE
       ELSE /\ UNCHANGED <<layer_blink_count, layer_blink_sem, lastReq, nreq, unserved, pc>>
            /\ lastEv' = "ignored"
    /\ UNCHANGED <<dev, profile, current_mode, layer_blink_active,
                   led_state, pin, adv_timer, count, i, boot, init_ret, mode_ret>>
    /\ UNCHANGED <<woke, pended, cycles, conn_seen, fresh>>

----------------------------------------------------------------------------
Devices == {"ok", "cfg_fail", "not_ready"}

Init ==
    /\ dev \in Devices
    /\ profile \in Profiles
    /\ current_mode = LED_MODE_OFF
    /\ layer_blink_active = 0
    /\ layer_blink_count = 0
    /\ led_state = FALSE
    /\ pin = FALSE
    /\ adv_timer = FALSE
    /\ layer_blink_sem = 0
    /\ pc = [c \in Ctx |-> IF c = "init" THEN "i_ready"
                           ELSE IF c = "listener" THEN "idle" ELSE "take"]
    /\ count = 0
    /\ i = 0
    /\ boot = 0
    /\ init_ret = "none"
    /\ mode_ret = LED_MODE_OFF
    /\ nreq = 0
    /\ woke = 0
    /\ pended = FALSE
    /\ lastReq = 0
    /\ cycles = 0
    /\ conn_seen = FALSE
    /\ lastEv = "none"
    /\ fresh = FALSE
    /\ unserved = FALSE

Next ==
    \/ mtk64_dongle_led_init
    \/ adv_timer_handler
    \/ \E p \in Profiles : ConnEvent(p)
    \/ led_conn_listener_cb
    \/ \E ev \in LayerEvents : led_layer_listener_cb(ev)
    \/ layer_blink_thread

Spec == Init /\ [][Next]_vars

\* The scheduler runs every context that stays ready: the init function and a
\* listener call run to completion, the worker runs when no listener call is in
\* progress, and a running timer expires.
FairSpec ==
    /\ Spec
    /\ WF_vars(mtk64_dongle_led_init)
    /\ WF_vars(led_conn_listener_cb)
    /\ WF_vars(layer_blink_thread)
    /\ WF_vars(adv_timer_handler)

\* The worker thread is ready: it is not blocked in k_sem_take (line 84).
WorkerReady == InitDone /\ ~SemWaiter

\* Weak fairness of the worker as a thread: a worker that stays ready is
\* eventually given the processor, although each listener call preempts it.
\* The same holds for the main thread while it runs the init function.
WorkerFairSpec ==
    /\ Spec
    /\ (<>[]~InitDone => []<><<mtk64_dongle_led_init>>_vars)
    /\ WF_vars(led_conn_listener_cb)
    /\ WF_vars(adv_timer_handler)
    /\ (<>[]WorkerReady => []<><<layer_blink_thread>>_vars)

\* As FairSpec, and the worker is not starved by the listeners: listener calls
\* are short and events are separated in time, so a worker that is ready again
\* and again does get to run.
StrongFairSpec ==
    /\ Spec
    /\ SF_vars(mtk64_dongle_led_init)
    /\ WF_vars(led_conn_listener_cb)
    /\ SF_vars(layer_blink_thread)
    /\ WF_vars(adv_timer_handler)

----------------------------------------------------------------------------
\* Properties.

\* The positions at which a thread calls led_set.
LedSetAt == {"i_on", "i_off", "w_on", "w_off", "am_on", "am_off"}

\* A step in which context c calls led_set: lines 30-33 of the call.
LedSetCall(c) == pc[c] \in LedSetAt /\ pc'[c] # pc[c]

\* A step in which the worker's loop calls led_set (lines 95 and 97).
LoopLedSet == LedSetCall("worker") /\ pc["worker"] \in {"w_off", "w_on"}

\* A step in which any context or the timer handler calls led_set.
AnyLedSet == adv_timer_handler \/ \E c \in Ctx : LedSetCall(c)

\* The worker has set layer_blink_active and has completed k_timer_stop
\* (line 92): it is in its loop, lines 94-99, or about to clear the flag.
WorkerInLoop ==
    pc["worker"] \in {"loop", "w_off", "w_off_st", "w_on", "w_on_st", "w_inc", "clear"}

\* The worker is between its read of a nonzero count and the clearing of
\* layer_blink_active.
WorkerInSequence == pc["worker"] \in {"set_active", "stop"} \/ WorkerInLoop

\* C1 as stated: whenever led_set writes the indicator while
\* layer_blink_active is 1 and current_mode is not Advertising, the caller is
\* the blink worker's loop.
C1_OverrideExclusive ==
    [][(AnyLedSet /\ device_is_ready /\ layer_blink_active = 1
            /\ current_mode # LED_MODE_ADVERTISING)
        => LoopLedSet]_vars

\* C1 amended: the same once the worker has completed its k_timer_stop, that
\* is while it is in its loop; before that a tick of the still running timer
\* may call led_set.
C1_OverrideExclusiveAfterStop ==
    [][(AnyLedSet /\ device_is_ready /\ layer_blink_active = 1 /\ WorkerInLoop
            /\ current_mode # LED_MODE_ADVERTISING)
        => LoopLedSet]_vars

\* C1 witness: the worker's loop has just written the pin under an override
\* in mode Connected, while a connectivity listener call is in progress.
C1_Witness ==
    /\ device_is_ready
    /\ layer_blink_active = 1
    /\ current_mode = LED_MODE_CONNECTED
    /\ pc["worker"] = "w_off_st"
    /\ ~pin
    /\ pc["listener"] = "am_ovr_stop"

\* C2 as stated: the semaphore never holds more than one raise, and when two
\* or more requests were accepted while the worker was blocked in k_sem_take
\* and before it returned from it, and none was accepted since, no wake is
\* left pending and the one sequence the worker runs uses the count of the
\* latest of those requests.
C2_CoalescingWake ==
    /\ layer_blink_sem \in {0, 1}
    /\ (pended /\ woke = 2 /\ nreq = 0) =>
          /\ layer_blink_sem = 0
          /\ pc["worker"] = "read" => layer_blink_count = lastReq
          /\ WorkerInSequence => count = lastReq
          /\ pc["worker"] = "clear" => cycles = lastReq
          /\ (pc["worker"] \in {"take", "blocked"} \/ InApplyMode("worker")) => cycles = lastReq

\* C3 as stated: once led_conn_listener_cb has stored the mode for the last
\* connectivity event, current_mode is Connected if the profile is connected,
\* else Advertising if it is open, else Off; and only line 111 and line 161
\* ever change current_mode.  (Line 161 stores what compute_mode() returned
\* to init, which a listener call inside line 161 makes stale.)
C3_ModeHistoryFree ==
    /\ [](conn_seen /\ pc["listener"] # "c_mode" =>
            current_mode = (IF profile.connected THEN LED_MODE_CONNECTED
                            ELSE IF profile.open THEN LED_MODE_ADVERTISING
                            ELSE LED_MODE_OFF))
    /\ [][current_mode' # current_mode =>
            (pc["listener"] = "c_mode" \/ pc["init"] = "i_store")]_vars

\* C4: no context is about to call k_timer_start (line 65) while
\* layer_blink_active is 1.
C4_NoStartWhileActive ==
    \A c \in Ctx : pc[c] = "am_start" => layer_blink_active = 0

\* C4 witness: a connectivity event to Advertising is being handled between
\* the worker's atomic_set(&layer_blink_active, 1) and its k_timer_stop, and
\* apply_mode has taken the overridden branch.
C4_Witness ==
    /\ pc["worker"] = "stop"
    /\ layer_blink_active = 1
    /\ pc["listener"] = "am_ovr_mode"
    /\ current_mode = LED_MODE_ADVERTISING

\* C5: the worker clears layer_blink_active after exactly as many cycles as
\* the count it read on waking, and a request accepted during the sequence
\* changes only layer_blink_count and leaves one wake pending.
C5_NoResize ==
    /\ [](/\ WorkerInSequence => (count # 0 /\ cycles <= count /\ cycles = i)
          /\ pc["worker"] = "clear" => cycles = count)
    /\ [][\A ev \in LayerEvents :
            (WorkerInSequence /\ led_layer_listener_cb(ev)
                /\ ev.dec /\ ev.state /\ ev.layer # 0
                /\ current_mode = LED_MODE_CONNECTED)
            => /\ layer_blink_count' = ev.layer
               /\ layer_blink_sem' = 1
               /\ UNCHANGED <<count, i, cycles, layer_blink_active, pc,
                              adv_timer, pin, led_state>>]_vars

\* C5 witness: the worker is in the second cycle of a sequence of two although
\* a request with count 1 was accepted during the sequence.
C5_Witness ==
    /\ pc["worker"] = "w_on"
    /\ count = 2
    /\ cycles = 1
    /\ layer_blink_count = 1
    /\ layer_blink_sem = 1
    /\ nreq = 1

\* C6: a layer event that is undecodable, a deactivation, for layer 0, or
\* delivered while current_mode is not Connected changes none of
\* layer_blink_count, the semaphore, layer_blink_active, the timer, the pin
\* and led_state.
C6_IgnoredChangesNothing ==
    [][\A ev \in LayerEvents :
          (led_layer_listener_cb(ev)
              /\ (~ev.dec \/ ~ev.state \/ ev.layer = 0
                  \/ current_mode # LED_MODE_CONNECTED))
          => UNCHANGED <<layer_blink_count, layer_blink_sem, layer_blink_active,
                         adv_timer, pin, led_state, pc, count>>]_vars

\* C6 witness: an event was ignored while the mode is Advertising and the
\* worker stays blocked with no wake pending.
C6_Witness ==
    /\ lastEv = "ignored"
    /\ current_mode = LED_MODE_ADVERTISING
    /\ pc["worker"] = "blocked"
    /\ layer_blink_sem = 0
    /\ layer_blink_active = 0

\* C7: after a layer request accepted in the start state of scenario B and no
\* further event, the worker sets layer_blink_active, runs exactly as many
\* off/on cycles as the requested layer with the timer stopped, clears the
\* flag, and ends blocked again with the indicator on and the timer stopped;
\* and it does reach that end.
C7_ScenarioB ==
    /\ [](lastEv = "acceptedB" =>
            /\ WorkerInLoop =>
                  /\ layer_blink_active = 1
                  /\ count = lastReq
                  /\ cycles <= lastReq
                  /\ ~adv_timer
            /\ pc["worker"] \in {"w_off_st", "w_on"} => ~pin
            /\ pc["worker"] \in {"w_on_st", "w_inc"} => pin
            /\ pc["worker"] = "w_inc" => led_state
            /\ (InApplyMode("worker") \/ pc["worker"] = "take") =>
                  (layer_blink_active = 0 /\ cycles = lastReq /\ pin /\ led_state)
            /\ pc["worker"] = "blocked" =>
                  /\ layer_blink_active = 0
                  /\ cycles = lastReq
                  /\ pin /\ led_state
                  /\ ~adv_timer)
    /\ (lastEv = "acceptedB") ~>
          (lastEv # "acceptedB" \/ pc["worker"] = "blocked")

\* C7 witness: scenario B has run to its end for a request of layer 2.
C7_Witness ==
    /\ lastEv = "acceptedB"
    /\ lastReq = 2
    /\ cycles = 2
    /\ pc["worker"] = "blocked"
    /\ layer_blink_sem = 0
    /\ layer_blink_active = 0
    /\ pin /\ ~adv_timer

\* C8 as stated: after a successful init, once a connectivity event has been
\* handled and current_mode is Advertising, the indicator keeps toggling for as
\* long as the mode stays Advertising: whatever level the pin has, it later
\* has the other level or the mode has changed.
C8_ScenarioA ==
    \A b \in BOOLEAN :
        (init_ret = "0" /\ conn_seen /\ current_mode = LED_MODE_ADVERTISING /\ pin = b)
            ~> (pin # b \/ current_mode # LED_MODE_ADVERTISING)

\* mtk64_dongle_led_init has returned an error.
InitFailed == init_ret \in {"ENODEV", "err"}

\* C9 as stated: once mtk64_dongle_led_init has returned an error, no led_set
\* call changes the pin or led_state: both keep their values from startup.
C9_DegradedNoOp == InitFailed => (~pin /\ ~led_state)

\* No listener call in progress, the worker blocked on k_sem_take with no wake
\* pending, no override, after a successful init.
Quiescent ==
    /\ init_ret = "0"
    /\ pc["listener"] = "idle"
    /\ pc["worker"] = "blocked"
    /\ layer_blink_sem = 0
    /\ layer_blink_active = 0

\* C10 as stated: in every quiescent state the timer runs exactly when
\* current_mode is Advertising, the indicator is on when it is Connected and
\* off when it is Off.
C10_NoStuckDisplay ==
    Quiescent =>
        /\ adv_timer <=> current_mode = LED_MODE_ADVERTISING
        /\ current_mode = LED_MODE_CONNECTED => pin
        /\ current_mode = LED_MODE_OFF => ~pin

\* C11 as stated: after a successful init, the first expiry of the timer after
\* a k_timer_start (line 65) commands the indicator on.
C11_AdvStartsOn ==
    [][(init_ret = "0" /\ fresh /\ adv_timer_handler) => pin']_vars

\* C12: a wake stays pending (or the worker is about to read the count) for
\* every request not yet served; when the worker reads the count after such a
\* request it starts a sequence with the count of the latest accepted request;
\* and every accepted request is eventually followed by such a read.
C12_NoLostRequest ==
    /\ [](unserved => (layer_blink_sem = 1 \/ pc["worker"] \in {"woken", "read"}))
    /\ [][(unserved /\ pc["worker"] = "read" /\ pc'["worker"] # "read")
            => (pc'["worker"] = "set_active" /\ count' = lastReq /\ count' # 0)]_vars
    /\ unserved ~> ~unserved

\* C12 witness: a request accepted in the middle of a sequence is still to be
\* served, with its wake pending.
C12_Witness ==
    /\ unserved
    /\ pc["worker"] = "w_on"
    /\ layer_blink_sem = 1
    /\ layer_blink_count # count

\* C13: the steps of apply_mode after it has read layer_blink_active = 1 never
\* call led_set; with current_mode Advertising they return leaving the timer as
\* it was, otherwise they stop the timer and return.
C13_ApplyUnderOverride ==
    [][\A c \in Ctx :
        /\ (pc[c] = "am_active" /\ pc'[c] # pc[c] /\ layer_blink_active = 1)
              => (pc'[c] = "am_ovr_mode" /\ UNCHANGED <<adv_timer, pin, led_state>>)
        /\ (pc[c] = "am_ovr_mode" /\ pc'[c] # pc[c])
              => /\ UNCHANGED <<adv_timer, pin, led_state>>
                 /\ pc'[c] = IF current_mode = LED_MODE_ADVERTISING
                             THEN Ret(c) ELSE "am_ovr_stop"
        /\ (pc[c] = "am_ovr_stop" /\ pc'[c] # pc[c])
              => /\ ~adv_timer'
                 /\ pc'[c] = Ret(c)
                 /\ UNCHANGED <<pin, led_state>>]_vars

\* C13 witness: apply_mode is about to stop an already stopped timer under an
\* override, the mode having become Off during the worker's loop.
C13_Witness ==
    /\ pc["listener"] = "am_ovr_stop"
    /\ layer_blink_active = 1
    /\ current_mode = LED_MODE_OFF
    /\ ~adv_timer
    /\ pc["worker"] = "w_on"

\* C14: layer_blink_active is 1 exactly while the worker is between line 91
\* and line 101, and only these two lines change it.
C14_ActiveOnlyInSequence ==
    /\ [](layer_blink_active = 1 <=> (pc["worker"] = "stop" \/ WorkerInLoop))
    /\ [](layer_blink_active \in {0, 1})
    /\ [][layer_blink_active' # layer_blink_active =>
            (pc["worker"] \in {"set_active", "clear"} /\ pc'["worker"] # pc["worker"])]_vars

\* C14 witness: the worker has cleared the flag after a sequence and is in its
\* final apply_mode while a listener call is in progress.
C14_Witness ==
    /\ layer_blink_active = 0
    /\ pc["worker"] = "am_switch"
    /\ cycles = 2
    /\ pc["listener"] = "c_mode"

\* C15: whenever layer_blink_active is 1 it later is 0 again, and the worker
\* later blocks again in k_sem_take.
C15_OverrideEnds ==
    /\ (layer_blink_active = 1) ~> (layer_blink_active = 0)
    /\ (layer_blink_active = 1) ~> (pc["worker"] = "take")

\* C15 witness: an override is active with the highest count while a new
\* request and a connectivity event have arrived during it.
C15_Witness ==
    /\ layer_blink_active = 1
    /\ count = MaxLayer
    /\ pc["worker"] = "w_off"
    /\ layer_blink_sem = 1
    /\ pc["listener"] = "am_ovr_mode"

\* positions of mtk64_dongle_led_init inside its boot loop, lines 154-159
InitInBootLoop == pc["init"] \in {"i_loop", "i_on", "i_on_st", "i_off", "i_off_st", "i_inc"}

\* C16 as stated: with the device ready and configured, init runs exactly three on/off
\* cycles, leaves the indicator off, only then stores compute_mode() in
\* current_mode and runs apply_mode once before returning 0; with the device
\* not ready it returns ENODEV and writes neither the indicator, current_mode
\* nor the timer.
C16_StartupSequence ==
    /\ [](InitInBootLoop =>
            /\ dev = "ok" /\ boot \in 0..BootBlinks
            /\ current_mode = LED_MODE_OFF /\ ~adv_timer
            /\ (pc["init"] \in {"i_loop", "i_on", "i_inc"} => ~pin /\ ~led_state)
            /\ (pc["init"] = "i_on_st" => pin /\ ~led_state)
            /\ (pc["init"] = "i_off" => pin /\ led_state)
            /\ (pc["init"] = "i_off_st" => ~pin /\ led_state)
            /\ (pc["init"] # "i_loop" => boot < BootBlinks))
    /\ [](pc["init"] = "i_mode" =>
            boot = BootBlinks /\ ~pin /\ ~led_state
            /\ current_mode = LED_MODE_OFF /\ ~adv_timer)
    /\ []((InApplyMode("init") \/ pc["init"] = "i_ret" \/ init_ret = "0") =>
            dev = "ok" /\ boot = BootBlinks)
    /\ []((InApplyMode("init") \/ pc["init"] = "i_ret") =>
            current_mode = compute_mode(profile))
    /\ [][(boot' # boot) =>
            (pc["init"] = "i_inc" /\ boot' = boot + 1 /\ ~pin /\ ~led_state)]_vars
    /\ [][(pc["init"] = "i_ret" /\ pc'["init"] # "i_ret") =>
            (init_ret' = "0" /\ pc'["init"] = "done")]_vars
    /\ [][(pc'["init"] = "am_active" /\ pc["init"] # "am_active") =>
            pc["init"] = "i_store"]_vars
    /\ [][(dev = "not_ready" /\ pc'["init"] # pc["init"]) =>
            /\ pc["init"] = "i_ready" /\ pc'["init"] = "done" /\ init_ret' = "ENODEV"
            /\ UNCHANGED <<pin, led_state, current_mode, adv_timer>>]_vars

\* some context is inside led_set, between the pin write of line 33 and the
\* led_state update of line 34
LedSetInProgress == \E c \in Ctx : pc[c] \in {"i_on_st", "i_off_st", "w_on_st", "w_off_st",
                                              "am_on_st", "am_off_st"}

\* C17: with the device ready, each timer tick writes ~led_state to the pin,
\* and whenever no led_set call is in progress led_state equals the value last
\* written to the pin.
C17_LastCommandedFaithful ==
    /\ [][(device_is_ready /\ adv_timer_handler) => pin' = ~led_state]_vars
    /\ []((device_is_ready /\ init_ret = "0" /\ ~LedSetInProgress) => led_state = pin)

\* C18: while layer_blink_sem is pending layer_blink_count is nonzero, so the
\* worker reads a nonzero count after every wake and never takes the
\* continue of line 88.
C18_PendingCountNonzero ==
    /\ [](layer_blink_sem > 0 => layer_blink_count # 0)
    /\ [](pc["worker"] = "read" => layer_blink_count # 0)
    /\ [][(pc["worker"] = "read" /\ pc'["worker"] # "read") =>
            (pc'["worker"] = "set_active" /\ count' # 0)]_vars

\* C18 witness: the worker has woken and is about to read the count while a
\* second request is already pending.
C18_Witness ==
    /\ pc["worker"] = "read"
    /\ layer_blink_sem = 1
    /\ nreq = 2
    /\ woke = 1

====
